---- MODULE Spec2Model ----
(***************************************************************************)
(* A model of validate_drp's multi-visit reduction core:                   *)
(*   - MatchedMultiVisitDataset.__init__ and _loadAndMatchCatalogs         *)
(*     (filter name extraction, per-visit loader),                         *)
(*   - MatchedMultiVisitDataset._reduceStars (good/safe filters and the    *)
(*     summary statistics),                                                *)
(*   - calcsrd.tex.select_bin_from_corr and TExMeasurement.__init__.       *)
(* Floating point values are tagged records: a finite number, NaN or +inf. *)
(***************************************************************************)
EXTENDS Integers, Sequences, FiniteSets

VARIABLES
    \* _reduceStars
    allMatches, safeSnrArg, goodMatches, safeMatches, pcR,
    snr, mag, magrms, magerr, dist,
    \* _loadAndMatchCatalogs
    dataIds, filterName, vIdx, srcVis, mmatch, pcL,
    \* TExMeasurement / select_bin_from_corr
    metric, matches,
    radius, xip, xip_err, D, bin_range_operator, corr, corr_err, quantity, pcT

statVars == <<snr, mag, magrms, magerr, dist>>
reduceVars == <<allMatches, safeSnrArg, goodMatches, safeMatches, pcR, statVars>>
loadVars == <<dataIds, filterName, vIdx, srcVis, mmatch, pcL>>
texVars == <<metric, matches, radius, xip, xip_err, D, bin_range_operator, corr, corr_err, quantity, pcT>>
vars == <<reduceVars, loadVars, texVars>>

(***************************************************************************)
(* Floating point values: a rational n/d (d > 0), NaN or +inf.             *)
(***************************************************************************)
Num(x) == [k |-> "num", n |-> x, d |-> 1]
Frac(x, y) == [k |-> "num", n |-> x, d |-> y]
NaN == [k |-> "nan", n |-> 0, d |-> 1]
PosInf == [k |-> "inf", n |-> 0, d |-> 1]

\* np.isfinite
isfinite(x) == x.k = "num"

\* IEEE comparisons: any comparison with NaN is false
ge(a, b) ==
    /\ a.k # "nan" /\ b.k # "nan"
    /\ \/ a.k = "inf"
       \/ a.k = "num" /\ b.k = "num" /\ a.n * b.d >= b.n * a.d
gt(a, b) ==
    /\ a.k # "nan" /\ b.k # "nan"
    /\ \/ a.k = "inf" /\ b.k = "num"
       \/ a.k = "num" /\ b.k = "num" /\ a.n * b.d > b.n * a.d
le(a, b) == ge(b, a)
lt(a, b) == gt(b, a)

\* two floats denote the same value (NaN is the same "undefined" value here)
SameValue(a, b) ==
    /\ a.k = b.k
    /\ a.k = "num" => a.n * b.d = b.n * a.d

RECURSIVE Insert(_, _)
Insert(x, s) ==
    IF s = <<>> THEN <<x>>
    ELSE IF le(x, Head(s)) THEN <<x>> \o s
    ELSE <<Head(s)>> \o Insert(x, Tail(s))

\* ascending sort of an array without NaN
RECURSIVE Sort(_)
Sort(s) == IF s = <<>> THEN <<>> ELSE Insert(Head(s), Sort(Tail(s)))

hasNaN(a) == \E i \in 1..Len(a) : a[i].k = "nan"

\* np.median of a non-empty array of finite-or-NaN values: NaN if any entry
\* is NaN, else the middle of the sorted array (mean of the two middle ones)
median(a) ==
    IF hasNaN(a) THEN NaN
    ELSE LET s == Sort(a)
             m == Len(a)
         IN  IF m % 2 = 1 THEN s[(m + 1) \div 2]
             ELSE LET lo == s[m \div 2]
                      hi == s[m \div 2 + 1]
                  IN  Frac(lo.n * hi.d + hi.n * lo.d, 2 * lo.d * hi.d)

\* np.max of a non-empty array: NaN if any entry is NaN, else the largest
npmax(a) ==
    IF hasNaN(a) THEN NaN
    ELSE CHOOSE x \in {a[i] : i \in 1..Len(a)} :
            \A j \in 1..Len(a) : ge(x, a[j])

\* exact arithmetic on finite values
fadd(a, b) == Frac(a.n * b.d + b.n * a.d, a.d * b.d)
fsub(a, b) == Frac(a.n * b.d - b.n * a.d, a.d * b.d)
fmul(a, b) == Frac(a.n * b.n, a.d * b.d)

RECURSIVE fsum(_)
fsum(a) == IF a = <<>> THEN Num(0) ELSE fadd(Head(a), fsum(Tail(a)))

\* np.mean of a non-empty array: NaN if any entry is NaN, +inf if the array
\* holds +inf and no NaN, else the sum over the length
npmean(a) ==
    IF hasNaN(a) THEN NaN
    ELSE IF \E i \in 1..Len(a) : a[i].k = "inf" THEN PosInf
    ELSE LET t == fsum(a) IN Frac(t.n, t.d * Len(a))

\* np.std of a non-empty array (population standard deviation): NaN if any
\* entry is not finite, else the square root of the mean squared deviation
\* from the mean, kept as the exact rational under the root
npstd(a) ==
    IF \E i \in 1..Len(a) : ~isfinite(a[i]) THEN NaN
    ELSE LET mu == npmean(a)
             dev == [i \in 1..Len(a) |-> fmul(fsub(a[i], mu), fsub(a[i], mu))]
             var == npmean(dev)
         IN  [k |-> "sqrt", n |-> var.n, d |-> var.d]

\* cat.get(key): the column of one field over the records of a group
column(cat, f) == [i \in 1..Len(cat) |-> cat[i][f]]

(***************************************************************************)
(* _reduceStars: the good and safe filters                                 *)
(***************************************************************************)
\* the four pixel flags that disqualify a group (flagKeys)
flagKeys == {"saturated", "cr", "bad", "edge"}
nMatchesRequired == 2
goodSnr == 3
safeMaxExtended == 1
defaultSafeSnr == 50

\* goodFilter with the SNR cut made strict
goodFilter_strictSnr(cat) ==
    IF Len(cat) < nMatchesRequired THEN FALSE
    ELSE IF \E flagKey \in flagKeys :
              \E i \in 1..Len(cat) : flagKey \in cat[i].flags THEN FALSE
    ELSE IF ~(\A i \in 1..Len(cat) : isfinite(cat[i].mag)) THEN FALSE
    ELSE gt(median(column(cat, "snr")), Num(goodSnr))

\* goodFilter without the np.isfinite test of the magnitudes
goodFilter_noFiniteCheck(cat) ==
    IF Len(cat) < nMatchesRequired THEN FALSE
    ELSE IF \E flagKey \in flagKeys :
              \E i \in 1..Len(cat) : flagKey \in cat[i].flags THEN FALSE
    ELSE ge(median(column(cat, "snr")), Num(goodSnr))

goodFilter(cat) ==
    IF Len(cat) < nMatchesRequired THEN FALSE
    ELSE IF \E flagKey \in flagKeys :
              \E i \in 1..Len(cat) : flagKey \in cat[i].flags THEN FALSE
    ELSE IF ~(\A i \in 1..Len(cat) : isfinite(cat[i].mag)) THEN FALSE
    ELSE ge(median(column(cat, "snr")), Num(goodSnr))

\* safeFilter with the extendedness cut made inclusive
safeFilter_inclusiveExt(cat, safeSnr) ==
    LET psfSnr == median(column(cat, "snr"))
        extended == npmax(column(cat, "ext"))
    IN  ge(psfSnr, safeSnr) /\ le(extended, Num(safeMaxExtended))

safeFilter(cat, safeSnr) ==
    LET psfSnr == median(column(cat, "snr"))
        extended == npmax(column(cat, "ext"))
    IN  ge(psfSnr, safeSnr) /\ lt(extended, Num(safeMaxExtended))

\* GroupView.where(predicate): the groups the predicate accepts, in order;
\* accepts[i] is the predicate's answer for the catalog of group i
RECURSIVE where(_, _)
where(view, accepts) ==
    IF view = <<>> THEN <<>>
    ELSE (IF Head(accepts) THEN <<Head(view)>> ELSE <<>>)
         \o where(Tail(view), Tail(accepts))

\* the safeSnr the constructor hands to _reduceStars (50.0 when not given)
safeSnrOf(arg) == IF arg.given THEN arg.val ELSE Num(defaultSafeSnr)

goodMatchesOf(all) ==
    where(all, [i \in 1..Len(all) |-> goodFilter(all[i].cat)])
\* the safe filter applied to all matches instead of the good ones
safeMatchesOf_fromAll(good, safeSnr) ==
    where(allMatches,
          [i \in 1..Len(allMatches) |-> safeFilter(allMatches[i].cat, safeSnr)])

safeMatchesOf(good, safeSnr) ==
    where(good, [i \in 1..Len(good) |-> safeFilter(good[i].cat, safeSnr)])

\* positionRmsFromCat(cat): the value the position statistic returns for a
\* group, identified by the catalog it is called with
positionRmsFromCat(cat) == [fn |-> "positionRmsFromCat", cat |-> cat]

\* the mean magnitude taken over every input group
magOf_fromAll(good) ==
    [i \in 1..Len(allMatches) |-> npmean(column(allMatches[i].cat, "mag"))]

\* goodMatches.aggregate(f, field=key): f of the column, one entry per group
\* of the view, in the view's order
snrOf(good) == [i \in 1..Len(good) |-> median(column(good[i].cat, "snr"))]
magOf(good) == [i \in 1..Len(good) |-> npmean(column(good[i].cat, "mag"))]
magrmsOf(good) == [i \in 1..Len(good) |-> npstd(column(good[i].cat, "mag"))]
magerrOf(good) == [i \in 1..Len(good) |-> median(column(good[i].cat, "magerr"))]
\* goodMatches.aggregate(positionRmsFromCat): f of the whole group
distOf(good) == [i \in 1..Len(good) |-> positionRmsFromCat(good[i].cat)]

(***************************************************************************)
(* Inputs of _reduceStars: match groups over a pool of source records.     *)
(* The pool holds a bright unflagged star of magnitude 20, two fainter     *)
(* stars (one with a flag the filter does not read, one of undetermined    *)
(* extendedness) and records that differ from the bright star in one       *)
(* attribute.  The filters and statistics read a group only through        *)
(* any/all/median/max/mean/std, so members are listed in pool order.       *)
(***************************************************************************)
MaxRecords == 4

Star(fl, m, me, s, e) ==
    [flags |-> fl, mag |-> m, magerr |-> me, snr |-> s, ext |-> e]

SourcePool ==
    << Star({}, Num(20), Frac(1, 60), Num(60), Num(0)),
       Star({"interpolated"}, Num(23), Frac(1, 4), Num(4), Num(0)),
       Star({}, Num(24), Frac(1, 2), Num(2), NaN),
       Star({}, Num(20), NaN, NaN, Num(0)),
       Star({}, Num(21), Frac(1, 60), Num(60), Num(1)),
       Star({}, NaN, NaN, Num(60), Num(0)),
       Star({}, PosInf, NaN, Num(60), Num(0)),
       Star({"saturated"}, Num(20), Frac(1, 60), Num(60), Num(0)),
       Star({"cr"}, Num(20), Frac(1, 60), Num(60), Num(0)),
       Star({"bad"}, Num(20), Frac(1, 60), Num(60), Num(0)),
       Star({"edge"}, Num(20), Frac(1, 60), Num(60), Num(0)) >>

PoolIndex(rec) == CHOOSE i \in 1..Len(SourcePool) : SourcePool[i] = rec

\* the number of records in a grouped view
RECURSIVE Total(_)
Total(view) == IF view = <<>> THEN 0 ELSE Len(Head(view).cat) + Total(Tail(view))

SafeSnrArgs == { [given |-> FALSE, val |-> Num(0)],
                 [given |-> TRUE, val |-> Num(4)] }

(***************************************************************************)
(* Idle values of the variables a specification does not use               *)
(***************************************************************************)
ReduceIdle ==
    /\ allMatches = <<>> /\ safeSnrArg = [given |-> FALSE, val |-> Num(0)]
    /\ goodMatches = <<>> /\ safeMatches = <<>> /\ pcR = "idle"
    /\ snr = <<>> /\ mag = <<>> /\ magrms = <<>> /\ magerr = <<>> /\ dist = <<>>

LoadIdle ==
    /\ dataIds = <<>> /\ filterName = "" /\ vIdx = 0
    /\ srcVis = <<>> /\ mmatch = <<>>
    /\ pcL = "idle"

TexIdle ==
    /\ metric = [hasD |-> FALSE, D |-> 0, hasOp |-> FALSE, bin_range_operator |-> ""]
    /\ matches = <<>>
    /\ radius = <<>> /\ xip = <<>> /\ xip_err = <<>> /\ D = NaN
    /\ bin_range_operator = "" /\ corr = NaN /\ corr_err = NaN
    /\ quantity = NaN /\ pcT = "idle"

(***************************************************************************)
(* SpecReduce: _reduceStars applied to any grouped view and any safeSnr    *)
(***************************************************************************)
InitReduce ==
    /\ allMatches = <<>>
    /\ safeSnrArg = [given |-> FALSE, val |-> Num(0)]
    /\ goodMatches = <<>> /\ safeMatches = <<>>
    /\ snr = <<>> /\ mag = <<>> /\ magrms = <<>> /\ magerr = <<>> /\ dist = <<>>
    /\ pcR = "matching"
    /\ LoadIdle /\ TexIdle

\* GroupView.build(matchCat): the matcher's catalog grows by one record,
\* which opens a new object id ...
matchNewObject ==
    /\ pcR = "matching"
    /\ Total(allMatches) < MaxRecords
    /\ \E k \in 1..Len(SourcePool) :
         allMatches' = Append(allMatches,
                              [id |-> Len(allMatches) + 1, cat |-> <<SourcePool[k]>>])
    /\ UNCHANGED <<safeSnrArg, goodMatches, safeMatches, pcR, statVars,
                   loadVars, texVars>>

\* ... or joins the latest object
matchJoinObject ==
    /\ pcR = "matching"
    /\ Total(allMatches) < MaxRecords
    /\ allMatches # <<>>
    /\ LET last == allMatches[Len(allMatches)]
       IN  \E k \in PoolIndex(last.cat[Len(last.cat)])..Len(SourcePool) :
             allMatches' = [allMatches EXCEPT
                              ![Len(allMatches)].cat = Append(@, SourcePool[k])]
    /\ UNCHANGED <<safeSnrArg, goodMatches, safeMatches, pcR, statVars,
                   loadVars, texVars>>

\* MatchedMultiVisitDataset.__init__ calls _reduceStars(matchedCatalog, safeSnr)
reduceStars ==
    /\ pcR = "matching"
    /\ \E arg \in SafeSnrArgs :
         /\ safeSnrArg' = arg
         /\ goodMatches' = goodMatchesOf(allMatches)
         /\ safeMatches' = safeMatchesOf(goodMatches', safeSnrOf(arg))
         /\ snr' = snrOf(goodMatches')
         /\ mag' = magOf(goodMatches')
         /\ magrms' = magrmsOf(goodMatches')
         /\ magerr' = magerrOf(goodMatches')
         /\ dist' = distOf(goodMatches')
    /\ pcR' = "reduced"
    /\ UNCHANGED <<allMatches, loadVars, texVars>>

NextReduce == matchNewObject \/ matchJoinObject \/ reduceStars

SpecReduce == InitReduce /\ [][NextReduce]_vars

(***************************************************************************)
(* Properties of _reduceStars                                              *)
(***************************************************************************)
Range(s) == {s[i] : i \in 1..Len(s)}

\* C1: after _reduceStars, every group of safeMatches is in goodMatches and
\* every group of goodMatches is one of the input match groups.
C1_SafeInGoodInAll ==
    pcR = "reduced" =>
        /\ Range(safeMatches) \subseteq Range(goodMatches)
        /\ Range(goodMatches) \subseteq Range(allMatches)

\* a safe group, a group that is good but not safe
C1_Witness ==
    /\ pcR = "reduced"
    /\ safeMatches # <<>>
    /\ Len(safeMatches) < Len(goodMatches)

C3_SafeIff ==
    pcR = "reduced" =>
        LET threshold == IF safeSnrArg.given THEN safeSnrArg.val ELSE Num(50)
        IN  \A g \in Range(allMatches) :
                g \in Range(safeMatches) <=>
                    /\ g \in Range(goodMatches)
                    /\ ge(median(column(g.cat, "snr")), threshold)
                    /\ lt(npmax(column(g.cat, "ext")), Num(1))

\* safeSnr not given: one group is safe, another is good and bright but has
\* a member of extendedness 1
C3_Witness ==
    /\ pcR = "reduced"
    /\ ~safeSnrArg.given
    /\ safeMatches # <<>>
    /\ \E g \in Range(goodMatches) \ Range(safeMatches) :
         /\ ge(median(column(g.cat, "snr")), Num(50))
         /\ SameValue(npmax(column(g.cat, "ext")), Num(1))

\* a member's magnitude is NaN or infinite, or the median SNR is NaN
NumericEdgeCase(g) ==
    \/ \E i \in 1..Len(g.cat) : g.cat[i].mag.k \in {"nan", "inf"}
    \/ median(column(g.cat, "snr")).k = "nan"

\* at least two members, none flagged, and a median SNR of at least 3
OtherwiseGood(g) ==
    /\ Len(g.cat) >= 2
    /\ \A i \in 1..Len(g.cat) :
         g.cat[i].flags \cap {"saturated", "cr", "bad", "edge"} = {}
    /\ ge(median(column(g.cat, "snr")), Num(3))

\* C13: a group with a member of non-finite magnitude, or with a NaN median
\* SNR, is left out of goodMatches, of safeMatches and of the summary
\* statistics; the reduction still completes for the other groups of the
\* same view, which are judged as if the group were not there.
C13_NumericEdgeCasesExcluded ==
    pcR = "reduced" =>
        /\ \A g \in Range(allMatches) :
             NumericEdgeCase(g) =>
                 g \notin Range(goodMatches) /\ g \notin Range(safeMatches)
        /\ \A g \in Range(allMatches) :
             (~NumericEdgeCase(g) /\ OtherwiseGood(g)) => g \in Range(goodMatches)
        /\ \A i \in 1..Len(mag) : mag[i].k = "num" /\ magrms[i].k = "sqrt"
        /\ \A i \in 1..Len(snr) : snr[i].k = "num"

\* a group of two unflagged bright members, one of infinite magnitude,
\* beside an unaffected group that is reduced as usual
C13_Witness ==
    /\ pcR = "reduced"
    /\ \E g \in Range(allMatches) :
         /\ OtherwiseGood(g)
         /\ \E i \in 1..Len(g.cat) : g.cat[i].mag.k = "inf"
         /\ g \notin Range(goodMatches)
    /\ Len(goodMatches) = 1 /\ Len(mag) = 1 /\ mag[1].k = "num"

\* C16: snr, mag, magrms, magerr and dist have one entry per group of
\* goodMatches, in the order of goodMatches: entry i of each is the
\* statistic of the i-th good group, and nothing else is in them.
C16_StatisticsFollowGoodMatches ==
    pcR = "reduced" =>
        /\ Len(snr) = Len(goodMatches) /\ Len(mag) = Len(goodMatches)
        /\ Len(magrms) = Len(goodMatches) /\ Len(magerr) = Len(goodMatches)
        /\ Len(dist) = Len(goodMatches)
        /\ \A i \in 1..Len(goodMatches) :
             LET cat == goodMatches[i].cat
             IN  /\ SameValue(snr[i], median(column(cat, "snr")))
                 /\ SameValue(mag[i], npmean(column(cat, "mag")))
                 /\ magrms[i] = npstd(column(cat, "mag"))
                 /\ SameValue(magerr[i], median(column(cat, "magerr")))
                 /\ dist[i] = positionRmsFromCat(cat)

\* the only good group is the second of three input groups, and the
\* statistics hold its values, which differ from those of the first group
C16_Witness ==
    /\ pcR = "reduced"
    /\ Len(allMatches) = 3 /\ goodMatches = <<allMatches[2]>>
    /\ Len(mag) = 1
    /\ ~SameValue(mag[1], npmean(column(allMatches[1].cat, "mag")))
    /\ ~SameValue(snr[1], median(column(allMatches[1].cat, "snr")))
    /\ magrms[1].n > 0

(***************************************************************************)
(* SpecLoad: MatchedMultiVisitDataset.__init__ up to the end of the        *)
(* per-visit loop of _loadAndMatchCatalogs                                 *)
(*                                                                         *)
(* A data id has a 'filter' key or lacks it, and carries what the butler   *)
(* answers for its three items: "ok" or the exception raised.  The first   *)
(* failing get ends the visit's processing, so at most one item of a visit *)
(* fails.                                                                  *)
(***************************************************************************)
MaxVisits == 3
MaxSrc == 2

ButlerErrors == {"FitsError", "NoResults", "TypeError"}
SrcErrors == {"FitsError", "NoResults"}

\* the data ids with a 'filter' key: the answers for one data id, at most
\* one of them an exception
DataIdAnswers ==
    { ans \in [hasFilter : {TRUE},
               calexp_md : {"ok"} \cup ButlerErrors,
               calexp : {"ok"} \cup ButlerErrors,
               src : {"ok"} \cup SrcErrors,
               nsrc : 1..MaxSrc] :
        Cardinality({it \in {"calexp_md", "calexp", "src"} : ans[it] # "ok"}) <= 1 }

\* a data id without a 'filter' key
NoFilterDataId ==
    [hasFilter |-> FALSE, calexp_md |-> "ok", calexp |-> "ok", src |-> "ok",
     nsrc |-> 1]

\* the data id lists, the empty one included; the visit number of an entry
\* is its place in the list
DataIdLists ==
    UNION { [1..n -> DataIdAnswers \cup {NoFilterDataId}] : n \in 0..MaxVisits }

\* butler.get('src', vId): the source table of visit v
oldSrc(v, vId) == [i \in 1..vId.nsrc |-> [visit |-> v, id |-> i]]

\* the except clauses without the one for TypeError
calexpCaught_noTypeError(e) == e \in {"FitsError", "NoResults"}

\* except (FitsError, dafPersist.NoResults) / except TypeError
calexpCaught(e) == e \in {"FitsError", "NoResults"} \/ e = "TypeError"

\* the try block: calexp_md is fetched first, then calexp
calexpError(vId) ==
    IF vId.calexp_md # "ok" THEN vId.calexp_md ELSE vId.calexp

\* the filter read from the first data id only
filterKeyError_firstOnly(ids) == ids = <<>> \/ ~ids[1].hasFilter

\* set([dId['filter'] for dId in dataIds]).pop(): dId['filter'] raises
\* KeyError for an entry without the key, pop() raises KeyError on the empty
\* set
filterKeyError(ids) == ids = <<>> \/ \E i \in 1..Len(ids) : ~ids[i].hasFilter

InitLoad ==
    /\ dataIds \in DataIdLists
    /\ filterName = ""
    /\ vIdx = 1 /\ srcVis = <<>> /\ mmatch = <<>>
    /\ pcL = "constructing"
    /\ ReduceIdle /\ TexIdle

\* MatchedMultiVisitDataset.__init__ up to the call of _loadAndMatchCatalogs:
\* the filter name is extracted and the datums are registered, or the
\* constructor ends with KeyError
construct ==
    /\ pcL = "constructing"
    /\ IF filterKeyError(dataIds)
       THEN /\ pcL' = "keyerror"
            /\ UNCHANGED filterName
       ELSE /\ filterName' = "r"
            /\ pcL' = "loading"
    /\ UNCHANGED <<dataIds, vIdx, srcVis, mmatch, reduceVars, texVars>>

\* the calexp gets raise a caught exception: print and continue
skipVisit ==
    /\ pcL = "loading" /\ vIdx <= Len(dataIds)
    /\ calexpError(dataIds[vIdx]) # "ok"
    /\ calexpCaught(calexpError(dataIds[vIdx]))
    /\ vIdx' = vIdx + 1
    /\ UNCHANGED <<dataIds, filterName, srcVis, mmatch, pcL, reduceVars, texVars>>

\* an exception leaves the loop and _loadAndMatchCatalogs: one of the calexp
\* gets that no except clause catches, or one of butler.get('src', ...),
\* which is outside the try block
propagates(vId) ==
    \/ calexpError(vId) # "ok" /\ ~calexpCaught(calexpError(vId))
    \/ calexpError(vId) = "ok" /\ vId.src # "ok"

visitRaises ==
    /\ pcL = "loading" /\ vIdx <= Len(dataIds)
    /\ propagates(dataIds[vIdx])
    /\ pcL' = "raised"
    /\ UNCHANGED <<dataIds, filterName, vIdx, srcVis, mmatch, reduceVars, texVars>>

\* srcVis.extend(tmpCat, False); mmatch.add(catalog=tmpCat, dataId=vId)
addVisit ==
    /\ pcL = "loading" /\ vIdx <= Len(dataIds)
    /\ calexpError(dataIds[vIdx]) = "ok"
    /\ dataIds[vIdx].src = "ok"
    /\ LET tmpCat == oldSrc(vIdx, dataIds[vIdx])
       IN  /\ srcVis' = srcVis \o tmpCat
           /\ mmatch' = Append(mmatch, [dataId |-> vIdx,
                                         catalog |-> tmpCat])
    /\ vIdx' = vIdx + 1
    /\ UNCHANGED <<dataIds, filterName, pcL, reduceVars, texVars>>

\* mmatch.finish(); GroupView.build(matchCat); return
finishMatch ==
    /\ pcL = "loading" /\ vIdx > Len(dataIds)
    /\ pcL' = "matched"
    /\ UNCHANGED <<dataIds, filterName, vIdx, srcVis, mmatch, reduceVars, texVars>>

NextLoad == construct \/ skipVisit \/ visitRaises \/ addVisit \/ finishMatch

SpecLoad == InitLoad /\ [][NextLoad]_vars

(***************************************************************************)
(* Properties of the loader                                                *)
(***************************************************************************)
CalexpFails(vId) == vId.calexp_md # "ok" \/ vId.calexp # "ok"

\* the records of the first k visits whose calexp gets did not fail
RECURSIVE ExpectedCatalog(_)
ExpectedCatalog(k) ==
    IF k = 0 THEN <<>>
    ELSE ExpectedCatalog(k - 1) \o
         (IF CalexpFails(dataIds[k]) THEN <<>>
          ELSE [i \in 1..dataIds[k].nsrc |-> [visit |-> k, id |-> i]])

\* the first k visits whose calexp gets did not fail
RECURSIVE ExpectedVisits(_)
ExpectedVisits(k) ==
    IF k = 0 THEN <<>>
    ELSE ExpectedVisits(k - 1) \o
         (IF CalexpFails(dataIds[k]) THEN <<>> ELSE <<k>>)

\* C4: a visit whose calexp_md or calexp get fails (FitsError, NoResults,
\* TypeError) is skipped entirely: of the visits gone through, the combined
\* catalog and the matcher hold exactly the records of those whose calexp
\* gets succeeded, in order; such a failure never ends the run, and the
\* run that finishes has gone through every data id.
C4_FailedCalexpSkipped ==
    pcL # "idle" =>
        /\ srcVis = ExpectedCatalog(vIdx - 1)
        /\ [i \in 1..Len(mmatch) |-> mmatch[i].dataId] = ExpectedVisits(vIdx - 1)
        /\ \A i \in 1..Len(mmatch) :
             \A j \in 1..Len(mmatch[i].catalog) :
                mmatch[i].catalog[j].visit = mmatch[i].dataId
        /\ pcL = "raised" => ~CalexpFails(dataIds[vIdx])
        /\ pcL = "matched" => vIdx = Len(dataIds) + 1

\* three visits, the second with a malformed header: the first and the
\* third are loaded and matched
C4_Witness ==
    /\ pcL = "matched"
    /\ Len(dataIds) = 3
    /\ dataIds[2].calexp = "TypeError"
    /\ [i \in 1..Len(mmatch) |-> mmatch[i].dataId] = <<1, 3>>
    /\ Len(srcVis) = dataIds[1].nsrc + dataIds[3].nsrc

\* C5: an error raised by the butler for any of the three per-visit items
\* (calexp_md, calexp, src) is caught and only skips that visit, so no such
\* error ends the loading of the remaining visits.
C5_NoButlerErrorEndsTheRun ==
    pcL # "raised"

(***************************************************************************)
(* SpecTEx: TExMeasurement.__init__ on a correlation profile               *)
(*                                                                         *)
(* Separations are in tenths of an arcminute, so that the bin centers      *)
(* 0.3, 1.0, 5.0, 15.0 and the radii D = 1 and D = 5 arcmin are integers.  *)
(***************************************************************************)
MaxBins == 4

BinCenters == {3, 10, 50, 150}
\* a bin's correlation and its uncertainty
BinValues == { <<-3, 1>>, <<3, 2>> }
Radii == {10, 50}
Operators == {"<=", "<", ">=", ">"}

\* Metric.convert_operator_str(op) applied to (a, b)
operatorHolds(op, a, b) ==
    CASE op = "<=" -> a <= b
      [] op = "<" -> a < b
      [] op = ">=" -> a >= b
      [] op = ">" -> a > b

RECURSIVE SeqSum(_)
SeqSum(a) == IF a = <<>> THEN 0 ELSE Head(a) + SeqSum(Tail(a))

\* np.average: the sum over the length; NaN for an empty array
npaverage(a) == IF a = <<>> THEN NaN ELSE Frac(SeqSum(a), Len(a))

\* a[w] for an ascending index array w
take(a, w) == [i \in 1..Len(w) |-> a[w[i]]]

\* np.where(cond): the indices at which cond holds, ascending
RECURSIVE npwhere(_, _, _, _)
npwhere(r, rad, op, i) ==
    IF i > Len(r) THEN <<>>
    ELSE (IF operatorHolds(op, r[i], rad) THEN <<i>> ELSE <<>>)
         \o npwhere(r, rad, op, i + 1)

\* select_bin_from_corr with the operands of the comparison swapped
select_bin_from_corr_swapped(r, x, xerr, rad, op) ==
    LET w == SelectSeq([i \in 1..Len(r) |-> i],
                       LAMBDA i : operatorHolds(op, rad, r[i]))
    IN  [avg_xip |-> npaverage(take(x, w)),
         avg_xip_err |-> npaverage(take(xerr, w))]

select_bin_from_corr(r, x, xerr, rad, op) ==
    LET w == npwhere(r, rad, op, 1)
    IN  [avg_xip |-> npaverage(take(x, w)),
         avg_xip_err |-> npaverage(take(xerr, w))]

\* np.abs left out
npabs_identity(x) == x

\* np.abs
npabs(x) == IF x.k = "num" /\ x.n < 0 THEN Frac(-x.n, x.d) ELSE x

\* a metric: its parameters D and bin_range_operator, each of which the
\* metric may lack
Metric(hd, d, ho, op) ==
    [hasD |-> hd, D |-> d, hasOp |-> ho, bin_range_operator |-> op]

Metrics ==
    { Metric(TRUE, d, TRUE, op) : d \in Radii, op \in Operators }
    \cup { Metric(FALSE, 0, TRUE, op) : op \in Operators }
    \cup { Metric(TRUE, d, FALSE, "") : d \in Radii }
    \cup { Metric(FALSE, 0, FALSE, "") }

\* self.metric.D and self.metric.bin_range_operator can both be read
hasParameters(m) == m.hasD /\ m.hasOp

\* the matched datasets handed to the measurement: two matched catalogs,
\* reduced with the default safeSnr
TexViews ==
    { << [id |-> 1, cat |-> <<SourcePool[1], SourcePool[1]>>],
         [id |-> 2, cat |-> <<SourcePool[2], SourcePool[2]>>] >>,
      << [id |-> 1, cat |-> <<SourcePool[1], SourcePool[1]>>],
         [id |-> 2, cat |-> <<SourcePool[1], SourcePool[1], SourcePool[1]>>] >> }

InitTEx ==
    /\ metric \in Metrics
    /\ allMatches \in TexViews
    /\ safeSnrArg = [given |-> FALSE, val |-> Num(0)]
    /\ goodMatches = goodMatchesOf(allMatches)
    /\ safeMatches = safeMatchesOf(goodMatchesOf(allMatches), Num(defaultSafeSnr))
    /\ snr = snrOf(goodMatchesOf(allMatches))
    /\ mag = magOf(goodMatchesOf(allMatches))
    /\ magrms = magrmsOf(goodMatchesOf(allMatches))
    /\ magerr = magerrOf(goodMatchesOf(allMatches))
    /\ dist = distOf(goodMatchesOf(allMatches))
    /\ pcR = "reduced"
    /\ matches = <<>>
    /\ radius = <<>> /\ xip = <<>> /\ xip_err = <<>>
    /\ D = NaN /\ bin_range_operator = ""
    /\ corr = NaN /\ corr_err = NaN /\ quantity = NaN
    /\ pcT = "constructing"
    /\ LoadIdle

\* register_parameter('D', datum=self.metric.D) and
\* register_parameter('bin_range_operator', ...): reading a parameter the
\* metric lacks raises, and the constructor ends there
registerParameters ==
    /\ pcT = "constructing"
    /\ IF hasParameters(metric)
       THEN /\ D' = Num(metric.D)
            /\ bin_range_operator' = metric.bin_range_operator
            /\ pcT' = "registered"
       ELSE /\ pcT' = "raised"
            /\ UNCHANGED <<D, bin_range_operator>>
    /\ UNCHANGED <<metric, matches, radius, xip, xip_err, corr, corr_err,
                   quantity, reduceVars, loadVars>>

\* the sample of the matched dataset that is correlated, taken from goodMatches
texMatches_good == goodMatches

\* matches = matchedDataset.safeMatches
texMatches == safeMatches

\* radius, xip, xip_err = correlation_function_ellipticity_from_matches(matches):
\* the profile treecorr computes, any profile of 1..MaxBins bins
correlate ==
    /\ pcT = "registered"
    /\ matches' = texMatches
    /\ \E m \in 1..MaxBins :
         /\ radius' \in [1..m -> BinCenters]
         /\ \E vals \in [1..m -> BinValues] :
              /\ xip' = [i \in 1..m |-> vals[i][1]]
              /\ xip_err' = [i \in 1..m |-> vals[i][2]]
    /\ pcT' = "correlated"
    /\ UNCHANGED <<metric, D, bin_range_operator, corr, corr_err, quantity,
                   reduceVars, loadVars>>

\* select_bin_from_corr(radius, xip, xip_err, radius=D, operator=...) and
\* quantity = np.abs(corr), for the metric's D and bin_range_operator
measure ==
    /\ pcT = "correlated"
    /\ LET sel == select_bin_from_corr(radius, xip, xip_err, D.n,
                                       bin_range_operator)
       IN  /\ corr' = sel.avg_xip
           /\ corr_err' = sel.avg_xip_err
           /\ quantity' = npabs(sel.avg_xip)
    /\ pcT' = "measured"
    /\ UNCHANGED <<metric, matches, radius, xip, xip_err, D, bin_range_operator,
                   reduceVars, loadVars>>

NextTEx == registerParameters \/ correlate \/ measure

SpecTEx == InitTEx /\ [][NextTEx]_vars

(***************************************************************************)
(* Properties of the bin selection                                         *)
(***************************************************************************)
\* the bins i with operator(r[i], D)
SelectedBins ==
    { i \in 1..Len(radius) : operatorHolds(bin_range_operator, radius[i], D.n) }

RECURSIVE SumOver(_, _)
SumOver(a, S) ==
    IF S = {} THEN 0
    ELSE LET i == CHOOSE j \in S : TRUE IN a[i] + SumOver(a, S \ {i})

\* C9: select_bin_from_corr returns the arithmetic mean of xip and of
\* xip_err over exactly the bins i with operator(r[i], radius), for each of
\* the operators <=, <, >=, >.
C9_MeanOverSelectedBins ==
    (pcT = "measured" /\ SelectedBins # {}) =>
        /\ corr.k = "num"
        /\ corr.n * Cardinality(SelectedBins) = SumOver(xip, SelectedBins) * corr.d
        /\ corr_err.k = "num"
        /\ corr_err.n * Cardinality(SelectedBins)
              = SumOver(xip_err, SelectedBins) * corr_err.d

\* centers 0.3, 1.0, 5.0, 15.0 with >= and radius 5: only the bins 5.0 and
\* 15.0 are averaged
C9_Witness ==
    /\ pcT = "measured"
    /\ radius = <<3, 10, 50, 150>>
    /\ xip = <<-3, -3, 3, 3>>
    /\ bin_range_operator = ">=" /\ D = Num(50)
    /\ SameValue(corr, Num(3))
    /\ SameValue(corr_err, Num(2))

\* C10: when no bin center satisfies operator(bin_center, radius), the
\* measurement is an explicit failure, told apart from a number: its
\* quantity is not a silently averaged NaN.
C10_EmptySelectionIsExplicit ==
    (pcT = "measured" /\ SelectedBins = {}) => quantity.k # "nan"

Abs(x) == IF x < 0 THEN -x ELSE x

\* C11: the quantity of a TExMeasurement is the absolute value of the
\* average of xip over the bins selected by the metric's D and
\* bin_range_operator, the profile being computed from the safeMatches of
\* the matched dataset; when it is a number it is >= 0.
C11_QuantityIsAbsOfSelectedMean ==
    pcT = "measured" =>
        /\ matches = safeMatches
        /\ D = Num(metric.D) /\ bin_range_operator = metric.bin_range_operator
        /\ SelectedBins # {} =>
             /\ quantity.k = "num"
             /\ quantity.n * Cardinality(SelectedBins)
                   = Abs(SumOver(xip, SelectedBins)) * quantity.d
        /\ quantity.k = "num" => (quantity.n >= 0 /\ quantity.d > 0)

\* a dataset whose safe sample is smaller than its good sample, and a
\* selection whose average is negative
C11_Witness ==
    /\ pcT = "measured"
    /\ Len(safeMatches) < Len(goodMatches)
    /\ Cardinality(SelectedBins) >= 2
    /\ SumOver(xip, SelectedBins) < 0
    /\ quantity.k = "num" /\ quantity.n > 0

(***************************************************************************)
(* SpecConfig: either constructor is run, on any of its inputs             *)
(***************************************************************************)
InitConfig == InitLoad \/ InitTEx

NextConfig == NextLoad \/ NextTEx

SpecConfig == InitConfig /\ [][NextConfig]_vars

\* C14: with an empty dataIds list, or one holding an entry without a
\* 'filter' key, the MatchedMultiVisitDataset constructor fails before any
\* visit is fetched or matched; with a metric lacking D or
\* bin_range_operator the TExMeasurement constructor fails before the
\* correlation function is computed.
C14_ConfigurationErrorsFailFast ==
    /\ (/\ pcL # "idle"
        /\ \/ Len(dataIds) = 0
           \/ \E i \in 1..Len(dataIds) : ~dataIds[i].hasFilter)
       => /\ pcL \in {"constructing", "keyerror"}
          /\ vIdx = 1 /\ srcVis = <<>> /\ mmatch = <<>>
    /\ (pcT # "idle" /\ (~metric.hasD \/ ~metric.hasOp))
       => /\ pcT \in {"constructing", "raised"}
          /\ matches = <<>>
          /\ radius = <<>> /\ xip = <<>> /\ xip_err = <<>>
          /\ quantity = NaN

\* the constructor has failed on a list whose first data id is usable and
\* whose second lacks the 'filter' key
C14_Witness ==
    /\ pcL = "keyerror"
    /\ Len(dataIds) >= 2
    /\ dataIds[1].hasFilter /\ dataIds[1].src = "ok"
    /\ ~dataIds[2].hasFilter
    /\ srcVis = <<>>

====
